---- MODULE Spec2Model ----
(***************************************************************************)
(* Ecosystem-Mapper: the taxonomy synthesis pipeline of                    *)
(* modules/taxonomy_analyzer.py (TaxonomyAnalyzer) as driven by agent.py   *)
(* (EcosystemMapper.map_ecosystem).                                        *)
(*                                                                         *)
(* Texts exchanged with the completion backend are sequences of JSON       *)
(* tokens (the text modulo insignificant whitespace); json.loads is a      *)
(* recursive-descent parser over them and json.dumps the serializer.       *)
(* Python values are tagged records [t, v].                                *)
(***************************************************************************)
EXTENDS Integers, Sequences, FiniteSets, TLC

VARIABLES
    pc,            \* position of the modelled call
    github_data,   \* argument github_data: sequence of repository records
    web_data,      \* argument web_data: insertion-ordered mapping category -> results
    data_summary,  \* summary_parts of _prepare_data_summary
    response,      \* outcome of the last completion-backend call
    taxonomy,      \* the taxonomy document (create_taxonomy's result, mutated in place by enrich_taxonomy)
    enrich_arg,    \* the document as it was when enrich_taxonomy was last called
    returned,      \* the value returned by the last call
    base_calls,    \* completion-backend invocations made by create_taxonomy (in the current run)
    enrich_calls,  \* completion-backend invocations made by enrich_taxonomy (in the current run)
    env,           \* the environment: credential name -> value
    files,         \* the outputs directory: file name -> content
    clock,         \* datetime.now(), in seconds
    run,           \* the current map_ecosystem call: its arguments and what it did so far
    past           \* what earlier and current runs left behind: count, keywords, last taxonomy saved

\* the variables of the EcosystemMapper runs
mvars == <<env, files, clock, run, past>>

vars == <<pc, github_data, web_data, data_summary, response, taxonomy, enrich_arg,
          returned, base_calls, enrich_calls, env, files, clock, run, past>>

Min(a, b) == IF a < b THEN a ELSE b

(***************************************************************************)
(* Python / JSON values                                                    *)
(***************************************************************************)
JNull == [t |-> "null", v |-> "null"]
JBool(b) == [t |-> "bool", v |-> b]
JNum(n) == [t |-> "num", v |-> n]
JStr(s) == [t |-> "str", v |-> s]
\* a Python str holding a raw backend text (kept as its token sequence)
JText(toks) == [t |-> "text", v |-> toks]
JArr(items) == [t |-> "arr", v |-> items]
\* a dict: insertion-ordered sequence of [k, v] items with distinct keys
JObj(items) == [t |-> "obj", v |-> items]

IsDict(x) == x.t = "obj"

\* key in d
HasKey(d, key) == \E i \in 1..Len(d.v) : d.v[i].k = key

\* d[key]
DictGet(d, key) == d.v[CHOOSE i \in 1..Len(d.v) : d.v[i].k = key].v

\* d[key] = val : replaces the value in place, or appends a new item
DictSet(d, key, val) ==
    IF HasKey(d, key)
    THEN JObj([i \in 1..Len(d.v) |->
                 IF d.v[i].k = key THEN [k |-> key, v |-> val] ELSE d.v[i]])
    ELSE JObj(Append(d.v, [k |-> key, v |-> val]))

Keys(d) == {d.v[i].k : i \in 1..Len(d.v)}

(***************************************************************************)
(* Tokens of a JSON text                                                   *)
(***************************************************************************)
Punct(c) == [k |-> "punct", v |-> c]
LBrace == Punct("{")
RBrace == Punct("}")
LBracket == Punct("[")
RBracket == Punct("]")
Colon == Punct(":")
Comma == Punct(",")
StrTok(s) == [k |-> "str", v |-> s]
NumTok(n) == [k |-> "num", v |-> n]
LitTok(w) == [k |-> "lit", v |-> w]
\* the string literal of a str that holds a raw backend text
RawStrTok(toks) == [k |-> "rawstr", v |-> toks]
\* a bare word that is no JSON token
WordTok(w) == [k |-> "word", v |-> w]

\* the digits of the integers the model uses
Numeral(n) == CASE n = 0 -> "0" [] n = 1 -> "1" [] n = 2 -> "2" [] OTHER -> "7"
NumeralValue(s) == CASE s = "0" -> 0 [] s = "1" -> 1 [] s = "2" -> 2 [] OTHER -> 7

(***************************************************************************)
(* json.loads                                                              *)
(***************************************************************************)
Fail == [ok |-> FALSE, val |-> JNull, next |-> 0]
Ok(val, next) == [ok |-> TRUE, val |-> val, next |-> next]

TokAt(toks, i, tok) == i <= Len(toks) /\ toks[i] = tok

RECURSIVE ParseValue(_, _)
RECURSIVE ParseArrayItems(_, _, _)
RECURSIVE ParseObjectItems(_, _, _)

\* elements after "[" or ",": value, then "," or "]"
ParseArrayItems(toks, i, acc) ==
    LET r == ParseValue(toks, i) IN
    IF ~r.ok THEN Fail
    ELSE IF TokAt(toks, r.next, Comma)
         THEN ParseArrayItems(toks, r.next + 1, Append(acc, r.val))
    ELSE IF TokAt(toks, r.next, RBracket)
         THEN Ok(JArr(Append(acc, r.val)), r.next + 1)
    ELSE Fail

\* members after "{" or ",": string, ":", value, then "," or "}"
ParseObjectItems(toks, i, acc) ==
    IF ~(i <= Len(toks) /\ toks[i].k = "str" /\ TokAt(toks, i + 1, Colon)) THEN Fail
    ELSE LET r == ParseValue(toks, i + 2) IN
         IF ~r.ok THEN Fail
         ELSE IF TokAt(toks, r.next, Comma)
              THEN ParseObjectItems(toks, r.next + 1, DictSet(acc, toks[i].v, r.val))
         ELSE IF TokAt(toks, r.next, RBrace)
              THEN Ok(DictSet(acc, toks[i].v, r.val), r.next + 1)
         ELSE Fail

ParseValue(toks, i) ==
    IF i > Len(toks) THEN Fail
    ELSE LET tok == toks[i] IN
         CASE tok.k = "str" -> Ok(JStr(tok.v), i + 1)
           [] tok.k = "rawstr" -> Ok(JText(tok.v), i + 1)
           [] tok.k = "num" -> Ok(JNum(NumeralValue(tok.v)), i + 1)
           [] tok.k = "lit" -> Ok(IF tok.v = "null" THEN JNull ELSE JBool(tok.v = "true"), i + 1)
           [] tok = LBracket ->
                IF TokAt(toks, i + 1, RBracket) THEN Ok(JArr(<<>>), i + 2)
                ELSE ParseArrayItems(toks, i + 1, <<>>)
           [] tok = LBrace ->
                IF TokAt(toks, i + 1, RBrace) THEN Ok(JObj(<<>>), i + 2)
                ELSE ParseObjectItems(toks, i + 1, JObj(<<>>))
           [] OTHER -> Fail

\* json.loads(text): [ok, val]; ok = FALSE is JSONDecodeError (no value, or extra data)
JsonLoads(toks) ==
    LET r == ParseValue(toks, 1) IN
    IF r.ok /\ r.next = Len(toks) + 1 THEN [ok |-> TRUE, val |-> r.val]
    ELSE [ok |-> FALSE, val |-> JNull]

(***************************************************************************)
(* json.dumps                                                              *)
(***************************************************************************)
RECURSIVE JsonDumps(_)
RECURSIVE DumpItems(_, _)
RECURSIVE DumpMembers(_, _)

DumpItems(items, i) ==
    IF i > Len(items) THEN <<>>
    ELSE (IF i > 1 THEN <<Comma>> ELSE <<>>) \o JsonDumps(items[i]) \o DumpItems(items, i + 1)

DumpMembers(items, i) ==
    IF i > Len(items) THEN <<>>
    ELSE (IF i > 1 THEN <<Comma>> ELSE <<>>)
         \o <<StrTok(items[i].k), Colon>> \o JsonDumps(items[i].v)
         \o DumpMembers(items, i + 1)

JsonDumps(x) ==
    CASE x.t = "null" -> <<LitTok("null")>>
      [] x.t = "bool" -> <<LitTok(IF x.v THEN "true" ELSE "false")>>
      [] x.t = "num" -> <<NumTok(Numeral(x.v))>>
      [] x.t = "str" -> <<StrTok(x.v)>>
      [] x.t = "text" -> <<RawStrTok(x.v)>>
      [] x.t = "arr" -> <<LBracket>> \o DumpItems(x.v, 1) \o <<RBracket>>
      [] x.t = "obj" -> <<LBrace>> \o DumpMembers(x.v, 1) \o <<RBrace>>

(***************************************************************************)
(* Texts of the collected records.  A str is the first n characters of the *)
(* character stream named s; slicing keeps the stream and cuts the length. *)
(***************************************************************************)
Text(id, len) == [s |-> id, n |-> len]
\* Python None in a nullable field
None == [s |-> <<"None">>, n |-> -1]
\* f"{x}" : None is rendered as the four characters None
Format(x) == IF x = None THEN Text(<<"None">>, 4) ELSE x
\* t[:k]
Prefix(t, k) == Text(t.s, Min(t.n, k))
\* seq[:k]
Take(seq, k) == SubSeq(seq, 1, Min(Len(seq), k))
\* len(str(n)) for n >= 0
RECURSIVE Digits(_)
Digits(n) == IF n < 10 THEN 1 ELSE 1 + Digits(n \div 10)
\* t.upper(): the upper-cased stream, of the same length
Upper(t) == Text(<<"upper", t.s>>, t.n)

\* limits of _prepare_data_summary
RepoLimit == 30
TopicLimit == 5
ResultLimit == 15
ContentLimit == 200

(***************************************************************************)
(* Collector outputs                                                       *)
(***************************************************************************)
MaxRepos == 32      \* longest repository sequence
MaxTopics == 6      \* most topics of one repository
MaxResults == 17    \* most results of one web category
MaxContent == 260   \* longest content of a web result
HugeLen == 100000   \* length of the longest repository description
RepoShapes == 3     \* number of repository-list shapes

ScenarioStars == <<100, 200, 50, 400, 10>>

\* repo_data of search_repositories, i-th of a list of the given shape:
\* shape 1 is the collector's order (stars descending), shape 2 repeats the
\* stars 100, 200, 50, 400, 10, shape 3 ascends and carries a huge description
RepoAt(shape, i) ==
    [ full_name   |-> Text(<<"full_name", i>>, 8 + (i % 5)),
      stars       |-> CASE shape = 1 -> (MaxRepos + 1 - i) * 10
                        [] shape = 2 -> ScenarioStars[((i - 1) % 5) + 1]
                        [] OTHER -> i,
      description |-> IF shape >= 3 /\ i = 1 THEN Text(<<"description", i>>, HugeLen)
                      ELSE Text(<<"description", i>>, (i * 37) % 251),
      topics      |-> [t \in 1..((i + shape) % (MaxTopics + 1)) |-> Text(<<"topic", i, t>>, 3 + t)],
      language    |-> IF i % 3 = 0 THEN None ELSE Text(<<"language", i % 2>>, 6) ]

GithubData(shape, n) == [i \in 1..n |-> RepoAt(shape, i)]

\* result of TavilySearcher.search, i-th of a category
WebResultAt(category, wshape, i) ==
    [ title          |-> Text(<<"title", category.s, i>>, 10 + i),
      url            |-> Text(<<"url", category.s, i>>, 20 + i),
      content        |-> Text(<<"content", category.s, i>>, (i * 67 + wshape * 13) % (MaxContent + 1)),
      score          |-> 0,
      published_date |-> Text(<<"published_date", category.s, i>>, 0) ]

\* the category labels of combine_searches
General == Text(<<"general">>, 7)
Tools == Text(<<"tools">>, 5)
Ecosystem == Text(<<"ecosystem">>, 9)

\* insertion orders of the categories of a WebResultSet; the second is combine_searches'
CategoryOrders ==
    { <<>>, <<General, Tools, Ecosystem>>, <<Ecosystem, General>>, <<Tools>> }

\* a WebResultSet: the j-th category holds (wshape + 6 j) % (MaxResults + 1) results
WebData(order, wshape) ==
    [j \in 1..Len(order) |->
        [ category |-> order[j],
          results  |-> [i \in 1..((wshape + 6 * j) % (MaxResults + 1)) |->
                           WebResultAt(order[j], wshape, i)] ]]

(***************************************************************************)
(* TaxonomyAnalyzer._prepare_data_summary                                  *)
(***************************************************************************)
GithubHeader == [kind |-> "github_header"]

RepoPart(i, repo) ==
    [ kind        |-> "repo",
      num         |-> i,
      full_name   |-> Format(repo.full_name),
      stars       |-> repo.stars,
      description |-> Format(repo.description),
      topics      |-> Take(repo.topics, TopicLimit),
      language    |-> Format(repo.language) ]

WebHeader(category) == [kind |-> "web_header", category |-> Upper(category)]

\* the mutation that marks only a content that was cut
ResultPartEllipsisWhenCut(i, result) ==
    [ kind     |-> "result",
      num      |-> i,
      title    |-> Format(result.title),
      url      |-> Format(result.url),
      content  |-> Prefix(result.content, ContentLimit),
      ellipsis |-> IF result.content.n > ContentLimit THEN "..." ELSE "" ]

ResultPart(i, result) ==
    [ kind     |-> "result",
      num      |-> i,
      title    |-> Format(result.title),
      url      |-> Format(result.url),
      content  |-> Prefix(result.content, ContentLimit),
      ellipsis |-> "..." ]

\* the mutation that cuts one result too late
CategoryPartsOffByOne(entry) ==
    LET shown == Take(entry.results, ResultLimit + 1) IN
    <<WebHeader(entry.category)>> \o [i \in 1..Len(shown) |-> ResultPart(i, shown[i])]

\* the parts of one category: its header, then its first ResultLimit results
CategoryParts(entry) ==
    LET shown == Take(entry.results, ResultLimit) IN
    <<WebHeader(entry.category)>> \o [i \in 1..Len(shown) |-> ResultPart(i, shown[i])]

RECURSIVE WebParts(_, _)
WebParts(wd, j) ==
    IF j > Len(wd) THEN <<>> ELSE CategoryParts(wd[j]) \o WebParts(wd, j + 1)

\* the mutation that drops the repository limit
PrepareDataSummaryNoRepoLimit(gd, wd) ==
    <<GithubHeader>> \o [i \in 1..Len(gd) |-> RepoPart(i, gd[i])] \o WebParts(wd, 1)

\* summary_parts, in order
PrepareDataSummary(gd, wd) ==
    LET shown == Take(gd, RepoLimit) IN
    <<GithubHeader>> \o [i \in 1..Len(shown) |-> RepoPart(i, shown[i])] \o WebParts(wd, 1)

\* len(", ".join(topics))
RECURSIVE JoinedLen(_, _)
JoinedLen(topics, i) ==
    IF i > Len(topics) THEN 0
    ELSE topics[i].n + (IF i < Len(topics) THEN 2 ELSE 0) + JoinedLen(topics, i + 1)

\* len of one rendered part
PartSize(p) ==
    CASE p.kind = "github_header" -> 28
      [] p.kind = "repo" ->
            Digits(p.num) + 2 + p.full_name.n + 2 + Digits(p.stars) + 3
            + 16 + p.description.n + 1
            + 11 + JoinedLen(p.topics, 1) + 1
            + 13 + p.language.n + 1
      [] p.kind = "web_header" -> 1 + 17 + p.category.n + 4 + 1
      [] p.kind = "result" ->
            Digits(p.num) + 2 + p.title.n + 1
            + 8 + p.url.n + 1
            + 12 + p.content.n + 3 + 1

RECURSIVE PartsSize(_, _)
PartsSize(parts, i) ==
    IF i > Len(parts) THEN 0 ELSE PartSize(parts[i]) + PartsSize(parts, i + 1)

\* len("\n".join(summary_parts))
SummarySize(parts) == PartsSize(parts, 1) + (IF Len(parts) > 0 THEN Len(parts) - 1 ELSE 0)

(***************************************************************************)
(* Completion backend: a call returns a text or raises                     *)
(***************************************************************************)
Completion(toks) == [kind |-> "text", text |-> toks, err |-> ""]
Raises(msg) == [kind |-> "raise", text |-> <<>>, err |-> msg]

TransportErrors == {"Connection error.", "Request timed out."}

MaxTextLen == 3      \* longest text enumerated token by token
MaxCategories == 2   \* most categories of a taxonomy document
MaxEnrichCalls == 2  \* most enrichment inferences in a row

Alphabet ==
    { LBrace, RBrace, LBracket, RBracket, Colon, Comma,
      StrTok("error"), StrTok("categories"), NumTok("1"), LitTok("null"), WordTok("not") }

ShortTexts == UNION { [1..n -> Alphabet] : n \in 0..MaxTextLen }

\* the literal text: not json at all
NotJsonAtAll == <<WordTok("not"), WordTok("json"), WordTok("at"), WordTok("all")>>

Member(key, val) == [k |-> key, v |-> val]

\* a TaxonomyCategory document
Category(name) ==
    JObj(<<Member("name", JStr(name)), Member("subcategories", JArr(<<JStr("s")>>))>>)

CategoryLists ==
    UNION { [1..n -> {Category("A"), Category("B")}] : n \in 0..MaxCategories }

\* documents of the Taxonomy shape of the prompt's OUTPUT FORMAT, full or sparse
TaxonomyDocs ==
    { JObj(<<Member("ecosystem_name", JStr("k")), Member("overview", JStr("o")),
             Member("categories", JArr(cats)), Member("key_trends", JArr(<<JStr("t")>>)),
             Member("emerging_areas", JArr(<<>>))>>) : cats \in CategoryLists }
    \cup { JObj(<<Member("categories", JArr(cats))>>) : cats \in CategoryLists }
    \cup { JObj(<<Member("overview", JStr("o"))>>) }

\* an Insights document
InsightsDocs ==
    { JObj(<<Member("maturity_level", JStr("growing")),
             Member("ecosystem_gaps", JArr(<<JStr("g")>>))>>),
      JObj(<<Member("maturity_level", JStr("mature"))>>) }

\* other JSON objects a model can emit
OtherDocs ==
    { JObj(<<Member("error", JStr("x"))>>),
      JObj(<<Member("error", JStr("x")), Member("categories", JArr(<<Category("A")>>))>>),
      JObj(<<Member("overview", JStr("o")), Member("categories", JArr(<<>>)),
             Member("error", JNull)>>),
      JObj(<<Member("categories", JArr(<<Category("A")>>)),
             Member("insights", JObj(<<Member("maturity_level", JStr("emerging"))>>)),
             Member("key_trends", JArr(<<>>))>>),
      JObj(<<Member("categories", JNum(1))>>),
      JObj(<<Member("categories", JNull)>>),
      JObj(<<Member("categories", JStr("A"))>>) }

\* an object text that repeats a key
DuplicateKeyText ==
    <<LBrace, StrTok("categories"), Colon, LBracket, RBracket, Comma,
      StrTok("categories"), Colon, LBracket, NumTok("1"), RBracket, RBrace>>

Prefixes(toks) == { SubSeq(toks, 1, n) : n \in 0..Len(toks) }

\* texts the backend can return to create_taxonomy: every short token sequence, the
\* serialized documents, every truncation of them, and texts with trailing data
BaseTexts ==
    LET dumped == { JsonDumps(d) : d \in TaxonomyDocs \cup OtherDocs }
    IN  ShortTexts
        \cup UNION { Prefixes(toks) : toks \in dumped }
        \cup { toks \o <<WordTok("not")>> : toks \in dumped }
        \cup { NotJsonAtAll, DuplicateKeyText }

BaseOutcomes == { Completion(toks) : toks \in BaseTexts } \cup { Raises(e) : e \in TransportErrors }

\* texts the backend can return to enrich_taxonomy
EnrichTexts ==
    LET dumped == { JsonDumps(d) : d \in InsightsDocs }
    IN  UNION { Prefixes(toks) : toks \in dumped }
        \cup { NotJsonAtAll, <<LBracket, RBracket>>, <<NumTok("1")>> }

EnrichOutcomes == { Completion(toks) : toks \in EnrichTexts } \cup { Raises(e) : e \in TransportErrors }

(***************************************************************************)
(* TaxonomyAnalyzer.create_taxonomy                                        *)
(***************************************************************************)
ErrorResult(msg) == JObj(<<Member("error", JStr(msg))>>)

ParseErrorResult(text) ==
    JObj(<<Member("error", JStr("Failed to parse taxonomy")), Member("raw_response", JText(text))>>)

\* str(e) of the AttributeError of x.get for x not a dict
AttributeErrorText(x) ==
    CASE x.t = "arr" -> "'list' object has no attribute 'get'"
      [] x.t = "str" -> "'str' object has no attribute 'get'"
      [] x.t = "num" -> "'int' object has no attribute 'get'"
      [] x.t = "bool" -> "'bool' object has no attribute 'get'"
      [] OTHER -> "'NoneType' object has no attribute 'get'"

\* len(x) is defined for lists, dicts and strs
HasLen(x) == x.t \in {"arr", "obj", "str"}

\* str(e) of the TypeError of len(x)
TypeErrorText(x) ==
    CASE x.t = "num" -> "object of type 'int' has no len()"
      [] x.t = "bool" -> "object of type 'bool' has no len()"
      [] OTHER -> "object of type 'NoneType' has no len()"

\* the mutation that handles every failure in the generic handler (no raw text kept)
CreateTaxonomyResultGenericOnly(o) ==
    IF o.kind = "raise" THEN ErrorResult(o.err)
    ELSE LET p == JsonLoads(o.text) IN
         IF ~p.ok THEN ErrorResult("Expecting value: line 1 column 1 (char 0)")
         ELSE IF ~IsDict(p.val) THEN ErrorResult(AttributeErrorText(p.val))
         ELSE IF HasKey(p.val, "categories") /\ ~HasLen(DictGet(p.val, "categories"))
              THEN ErrorResult(TypeErrorText(DictGet(p.val, "categories")))
         ELSE p.val

\* the mutation that handles every failure in the parse-failure handler
CreateTaxonomyResultParseOnly(o) ==
    IF o.kind = "raise" THEN ParseErrorResult(o.text)
    ELSE LET p == JsonLoads(o.text) IN
         IF ~p.ok THEN ParseErrorResult(o.text)
         ELSE IF ~IsDict(p.val) THEN ParseErrorResult(o.text)
         ELSE IF HasKey(p.val, "categories") /\ ~HasLen(DictGet(p.val, "categories"))
              THEN ParseErrorResult(o.text)
         ELSE p.val

\* the mutation that rejects a document without categories
CreateTaxonomyResultStrict(o) ==
    IF o.kind = "raise" THEN ErrorResult(o.err)
    ELSE LET p == JsonLoads(o.text) IN
         IF ~p.ok THEN ParseErrorResult(o.text)
         ELSE IF ~IsDict(p.val) THEN ErrorResult(AttributeErrorText(p.val))
         ELSE IF HasKey(p.val, "categories") /\ ~HasLen(DictGet(p.val, "categories"))
              THEN ErrorResult(TypeErrorText(DictGet(p.val, "categories")))
         ELSE IF ~HasKey(p.val, "categories") \/ Len(DictGet(p.val, "categories").v) = 0
              THEN ErrorResult("Taxonomy has no categories")
         ELSE p.val

\* the mutation without the log line of the parsed value: whatever parsed is returned
CreateTaxonomyResultNoLogLine(o) ==
    IF o.kind = "raise" THEN ErrorResult(o.err)
    ELSE LET p == JsonLoads(o.text) IN
         IF ~p.ok THEN ParseErrorResult(o.text)
         ELSE p.val

\* the value create_taxonomy returns for an outcome of its backend call
CreateTaxonomyResult(o) ==
    IF o.kind = "raise" THEN ErrorResult(o.err)
    ELSE LET p == JsonLoads(o.text) IN
         IF ~p.ok THEN ParseErrorResult(o.text)
         ELSE IF ~IsDict(p.val) THEN ErrorResult(AttributeErrorText(p.val))
         ELSE IF HasKey(p.val, "categories") /\ ~HasLen(DictGet(p.val, "categories"))
              THEN ErrorResult(TypeErrorText(DictGet(p.val, "categories")))
         ELSE p.val

(***************************************************************************)
(* TaxonomyAnalyzer.enrich_taxonomy                                        *)
(***************************************************************************)
\* the mutation that skips the check
ShortCircuitsNever(tax) == FALSE

\* "error" in taxonomy: the document is returned as it is
ShortCircuits(tax) == HasKey(tax, "error")

\* the mutation that records a failed enrichment in the document
EnrichResultMarksFailure(tax, o) ==
    IF o.kind = "raise" THEN DictSet(tax, "insights", JNull)
    ELSE LET p == JsonLoads(o.text) IN
         IF ~p.ok THEN DictSet(tax, "insights", JNull)
         ELSE DictSet(tax, "insights", p.val)

RECURSIVE DictUpdate(_, _, _)
\* d.update(items[i:])
DictUpdate(d, items, i) ==
    IF i > Len(items) THEN d
    ELSE DictUpdate(DictSet(d, items[i].k, items[i].v), items, i + 1)

\* the mutation that merges the insights into the top level (taxonomy.update(insights))
EnrichResultUpdate(tax, o) ==
    IF o.kind = "raise" THEN tax
    ELSE LET p == JsonLoads(o.text) IN
         IF ~p.ok THEN tax
         ELSE IF IsDict(p.val) THEN DictUpdate(tax, p.val.v, 1)
         ELSE tax

\* the mutation that hands a failed enrichment to the caller as an ErrorResult
EnrichResultPropagatesFailure(tax, o) ==
    IF o.kind = "raise" THEN ErrorResult(o.err)
    ELSE LET p == JsonLoads(o.text) IN
         IF ~p.ok THEN ErrorResult("Failed to parse insights")
         ELSE DictSet(tax, "insights", p.val)

\* the document after the try block, for an outcome of the backend call
EnrichResult(tax, o) ==
    IF o.kind = "raise" THEN tax
    ELSE LET p == JsonLoads(o.text) IN
         IF ~p.ok THEN tax
         ELSE DictSet(tax, "insights", p.val)

(***************************************************************************)
(* Calls of the analyzer                                                   *)
(***************************************************************************)
\* collected data handed to create_taxonomy: nothing collected, and the mock data of main()
AnalyzerInputs ==
    { [gd |-> <<>>, wd |-> <<>>],
      [gd |-> GithubData(1, 1), wd |-> WebData(<<General>>, 13)] }

\* os.getenv of a variable that is not set
Unset == "<unset>"

Credentials == {"GITHUB_PAT", "TAVILY_API_KEY", "OPENROUTER_API_KEY"}

\* no map_ecosystem call made yet
NoRun ==
    [ keyword |-> <<>>, enrich |-> FALSE, save_raw |-> FALSE, stages |-> <<>>,
      base_response |-> Raises(""), base_taxonomy |-> JNull, saved_at |-> -1, error |-> "" ]

NoPast ==
    [ count |-> 0, keywords |-> {},
      saved |-> [some |-> FALSE, keyword |-> <<>>, taxonomy |-> JNull] ]

\* an analyzer used on its own: credentials set, nothing run or written
MapperIdle ==
    /\ env = [c \in Credentials |-> "key"]
    /\ files = <<>>
    /\ clock = 0
    /\ run = NoRun
    /\ past = NoPast

Init ==
    /\ MapperIdle
    /\ pc = "start"
    /\ github_data = <<>>
    /\ web_data = <<>>
    /\ data_summary = <<>>
    /\ response = Raises("")
    /\ taxonomy = JNull
    /\ enrich_arg = JNull
    /\ returned = JNull
    /\ base_calls = 0
    /\ enrich_calls = 0

CreateTaxonomy ==
    /\ pc = "start"
    /\ \E inp \in AnalyzerInputs, o \in BaseOutcomes :
          /\ github_data' = inp.gd
          /\ web_data' = inp.wd
          /\ data_summary' = PrepareDataSummary(inp.gd, inp.wd)
          /\ response' = o
          /\ base_calls' = base_calls + 1
          /\ taxonomy' = CreateTaxonomyResult(o)
          /\ returned' = CreateTaxonomyResult(o)
    /\ pc' = "created"
    /\ UNCHANGED <<enrich_arg, enrich_calls>>
    /\ UNCHANGED mvars

EnrichTaxonomy ==
    /\ pc \in {"created", "enriched"}
    /\ enrich_calls < MaxEnrichCalls
    /\ enrich_arg' = taxonomy
    /\ IF ShortCircuits(taxonomy)
       THEN /\ returned' = taxonomy
            /\ UNCHANGED <<taxonomy, response, enrich_calls>>
       ELSE \E o \in EnrichOutcomes :
               /\ response' = o
               /\ enrich_calls' = enrich_calls + 1
               /\ taxonomy' = EnrichResult(taxonomy, o)
               /\ returned' = EnrichResult(taxonomy, o)
    /\ pc' = "enriched"
    /\ UNCHANGED <<github_data, web_data, data_summary, base_calls>>
    /\ UNCHANGED mvars

Next == CreateTaxonomy \/ EnrichTaxonomy

Spec == Init /\ [][Next]_vars

(***************************************************************************)
(* The Summary Builder on its own                                          *)
(***************************************************************************)
SummaryInit ==
    /\ MapperIdle
    /\ pc = "summary_start"
    /\ \E shape \in 1..RepoShapes, n \in 0..MaxRepos : github_data = GithubData(shape, n)
    /\ \E order \in CategoryOrders, wshape \in 0..MaxResults : web_data = WebData(order, wshape)
    /\ data_summary = <<>>
    /\ response = Raises("")
    /\ taxonomy = JNull
    /\ enrich_arg = JNull
    /\ returned = JNull
    /\ base_calls = 0
    /\ enrich_calls = 0

PrepareSummary ==
    /\ pc = "summary_start"
    /\ data_summary' = PrepareDataSummary(github_data, web_data)
    /\ pc' = "summarized"
    /\ UNCHANGED <<github_data, web_data, response, taxonomy, enrich_arg, returned,
                   base_calls, enrich_calls>>
    /\ UNCHANGED mvars

SummaryNext == PrepareSummary

SummarySpec == SummaryInit /\ [][SummaryNext]_vars

(***************************************************************************)
(* EcosystemMapper: construction                                           *)
(***************************************************************************)
MaxRuns == 2    \* most map_ecosystem calls against one outputs directory
MaxClock == 1   \* last second the clock reaches

\* the values a credential variable can have
CredentialValues == {Unset, "", "key"}

\* `if not token`: os.getenv gave None or the empty string
Missing(e, c) == e[c] \in {Unset, ""}

NotSet(c) == IF c = "GITHUB_PAT" THEN "GITHUB_PAT environment variable not set"
             ELSE IF c = "TAVILY_API_KEY" THEN "TAVILY_API_KEY environment variable not set"
             ELSE "OPENROUTER_API_KEY environment variable not set"

\* a constructor that never looks at the analyzer's credential
ConfigErrorSkipsAnalyzer(e) ==
    IF Missing(e, "GITHUB_PAT") THEN NotSet("GITHUB_PAT")
    ELSE IF Missing(e, "TAVILY_API_KEY") THEN NotSet("TAVILY_API_KEY")
    ELSE ""

\* the ValueError of EcosystemMapper.__init__ under environment e, "" when none:
\* the components are built in the order collector, searcher, analyzer
ConfigError(e) ==
    IF Missing(e, "GITHUB_PAT") THEN NotSet("GITHUB_PAT")
    ELSE IF Missing(e, "TAVILY_API_KEY") THEN NotSet("TAVILY_API_KEY")
    ELSE IF Missing(e, "OPENROUTER_API_KEY") THEN NotSet("OPENROUTER_API_KEY")
    ELSE ""

\* GitHubCollector.__init__ asks for the rate limit; the request can fail
RateLimitErrors == {"rate limit request failed"}

(***************************************************************************)
(* EcosystemMapper: files                                                  *)
(***************************************************************************)
\* keywords, character by character
Keywords == { <<"a", " ", "/">>, <<"a", "_", "-">> }

\* keyword.replace(" ", "_").replace("/", "-")
SafeKeyword(keyword) ==
    [i \in 1..Len(keyword) |->
        IF keyword[i] = " " THEN "_" ELSE IF keyword[i] = "/" THEN "-" ELSE keyword[i]]

\* datetime.now().strftime("%Y%m%d_%H%M%S"): one stamp per second
Timestamp(now) == now

RawDataFile(keyword, stamp) == [kind |-> "raw_data", safe |-> SafeKeyword(keyword), stamp |-> stamp]
TaxonomyFile(keyword, stamp) == [kind |-> "taxonomy", safe |-> SafeKeyword(keyword), stamp |-> stamp]
LatestFile(keyword) == [kind |-> "taxonomy_latest", safe |-> SafeKeyword(keyword), stamp |-> -1]

\* open(name, "w") and dump: the file holds the new content, whatever it held
WriteFile(fs, name, content) == (name :> content) @@ fs

Exists(fs, name) == name \in DOMAIN fs

\* a save that leaves an existing latest document alone
WriteTaxonomyKeepsLatest(fs, keyword, now, tax) ==
    LET first == WriteFile(fs, TaxonomyFile(keyword, Timestamp(now)), JsonDumps(tax))
    IN  IF Exists(first, LatestFile(keyword)) THEN first
        ELSE WriteFile(first, LatestFile(keyword), JsonDumps(tax))

\* _save_taxonomy: the timestamped document, then the latest one
WriteTaxonomy(fs, keyword, now, tax) ==
    LET first == WriteFile(fs, TaxonomyFile(keyword, Timestamp(now)), JsonDumps(tax))
    IN  WriteFile(first, LatestFile(keyword), JsonDumps(tax))

\* _save_raw_data
WriteRawData(fs, keyword, now, gd, wd) ==
    WriteFile(fs, RawDataFile(keyword, Timestamp(now)),
              [ keyword |-> keyword, timestamp |-> Timestamp(now),
                github_repositories |-> gd, web_results |-> wd ])

(***************************************************************************)
(* EcosystemMapper._print_summary                                          *)
(***************************************************************************)
\* len(x) works
Sized(x) == x.t \in {"arr", "obj", "str", "text"}

\* x[:n] works
Sliceable(x) == x.t \in {"arr", "str", "text"}

\* `for e in x` works
Iterable(x) == x.t \in {"arr", "obj", "str", "text"}

\* what `for e in x` yields: items of a list, keys of a dict, characters of a str
Elements(x) ==
    CASE x.t = "arr" -> x.v
      [] x.t = "obj" -> [i \in 1..Len(x.v) |-> JStr(x.v[i].k)]
      [] x.t = "str" -> IF x.v = "" THEN <<>> ELSE <<JStr("c")>>
      [] OTHER -> <<>>

\* x.get(key, []) of a dict
GetOrEmptyList(x, key) == IF HasKey(x, key) THEN DictGet(x, key) ELSE JArr(<<>>)

\* the print of one example raises
ExampleRaises(example) ==
    \/ ~IsDict(example)
    \/ ~HasKey(example, "name")
    \/ HasKey(example, "description") /\ ~Sliceable(DictGet(example, "description"))

\* the body of the loop over the categories raises
CategoryRaises(category) ==
    \/ ~IsDict(category)
    \/ /\ IsDict(category)
       /\ \/ ~Sized(GetOrEmptyList(category, "examples"))
          \/ ~Sized(GetOrEmptyList(category, "subcategories"))
          \/ ~HasKey(category, "name")
          \/ ~HasKey(category, "description")
          \/ ~Sliceable(GetOrEmptyList(category, "examples"))
          \/ \E i \in 1..Min(3, Len(Elements(GetOrEmptyList(category, "examples")))) :
                ExampleRaises(Elements(GetOrEmptyList(category, "examples"))[i])

\* _print_summary(tax) raises instead of returning
PrintSummaryRaises(tax) ==
    /\ ~HasKey(tax, "error")
    /\ \/ ~Sized(GetOrEmptyList(tax, "categories"))
       \/ \E i \in 1..Len(Elements(GetOrEmptyList(tax, "categories"))) :
             CategoryRaises(Elements(GetOrEmptyList(tax, "categories"))[i])
       \/ HasKey(tax, "key_trends") /\ ~Iterable(DictGet(tax, "key_trends"))
       \/ /\ HasKey(tax, "insights")
          /\ \/ ~IsDict(DictGet(tax, "insights"))
             \/ /\ IsDict(DictGet(tax, "insights"))
                /\ HasKey(DictGet(tax, "insights"), "ecosystem_gaps")
                /\ ~Sized(DictGet(DictGet(tax, "insights"), "ecosystem_gaps"))

(***************************************************************************)
(* EcosystemMapper.map_ecosystem                                           *)
(***************************************************************************)
\* a category with every field of the prompt's OUTPUT FORMAT
FullCategory(name) ==
    JObj(<<Member("name", JStr(name)), Member("description", JStr("d")),
           Member("subcategories", JArr(<<JStr("s")>>)),
           Member("examples", JArr(<<JObj(<<Member("name", JStr("e")),
                                            Member("description", JStr("d")),
                                            Member("url", JStr("u"))>>)>>)),
           Member("relationships", JArr(<<>>))>>)

FullTaxonomy ==
    JObj(<<Member("ecosystem_name", JStr("k")), Member("overview", JStr("o")),
           Member("categories", JArr(<<FullCategory("A")>>)),
           Member("key_trends", JArr(<<JStr("t")>>)),
           Member("emerging_areas", JArr(<<>>))>>)

\* what the backend answers to create_taxonomy during a run: the full document,
\* a document whose category has no description, one that also carries an error
\* key, a text that is no JSON, a transport error
RunBaseOutcomes ==
    { Completion(JsonDumps(FullTaxonomy)),
      Completion(JsonDumps(JObj(<<Member("categories", JArr(<<Category("A")>>))>>))),
      Completion(JsonDumps(JObj(<<Member("overview", JStr("o")), Member("categories", JArr(<<>>)),
                                  Member("error", JNull)>>))),
      Completion(NotJsonAtAll),
      Raises("Connection error.") }

\* what the backend answers to enrich_taxonomy during a run
RunEnrichOutcomes ==
    { Completion(JsonDumps(JObj(<<Member("maturity_level", JStr("growing")),
                                  Member("ecosystem_gaps", JArr(<<JStr("g")>>))>>))),
      Completion(NotJsonAtAll),
      Raises("Request timed out.") }

\* what search_repositories does: repositories ([] after a GithubException), or
\* another exception, which it does not catch
GithubOutcomes ==
    { [kind |-> "data", data |-> GithubData(1, 2), err |-> ""],
      [kind |-> "raise", data |-> <<>>, err |-> "Connection error."] }

\* what combine_searches returns: its three categories in its order
WebOutcomes == { WebData(<<General, Tools, Ecosystem>>, 1) }

\* a second create_taxonomy after a failed one
AfterBaseRetries(tax, enrich) ==
    IF HasKey(tax, "error") THEN "create_taxonomy"
    ELSE IF enrich THEN "enrich" ELSE "save_taxonomy"

\* where map_ecosystem goes after create_taxonomy returned tax
AfterBase(tax, enrich) ==
    IF enrich /\ ~HasKey(tax, "error") THEN "enrich" ELSE "save_taxonomy"

Stage(name) == run' = [run EXCEPT !.stages = Append(@, name)]

MapInit ==
    /\ pc = "main"
    /\ env \in [Credentials -> CredentialValues]
    /\ files = <<>>
    /\ clock = 0
    /\ run = NoRun
    /\ past = NoPast
    /\ github_data = <<>>
    /\ web_data = <<>>
    /\ data_summary = <<>>
    /\ response = Raises("")
    /\ taxonomy = JNull
    /\ enrich_arg = JNull
    /\ returned = JNull
    /\ base_calls = 0
    /\ enrich_calls = 0

avars == <<github_data, web_data, data_summary, response, taxonomy, enrich_arg,
           returned, base_calls, enrich_calls>>

\* main: EcosystemMapper()
Construct ==
    /\ pc = "main"
    /\ IF ConfigError(env) # ""
       THEN /\ pc' = "exit"
            /\ run' = [run EXCEPT !.error = ConfigError(env)]
       ELSE \/ /\ pc' = "ready"
               /\ UNCHANGED run
            \/ \E e \in RateLimitErrors :
                 /\ pc' = "exit"
                 /\ run' = [run EXCEPT !.error = e]
    /\ UNCHANGED <<env, files, clock, past>>
    /\ UNCHANGED avars

\* map_ecosystem is called, on this mapper or on the next one in the same directory
StartRun ==
    /\ pc \in {"ready", "done", "raised"}
    /\ past.count < MaxRuns
    /\ \E keyword \in Keywords, enrich \in BOOLEAN, save_raw \in BOOLEAN :
         /\ run' = [NoRun EXCEPT !.keyword = keyword, !.enrich = enrich, !.save_raw = save_raw]
         /\ past' = [past EXCEPT !.count = @ + 1, !.keywords = @ \cup {keyword}]
    /\ github_data' = <<>>
    /\ web_data' = <<>>
    /\ data_summary' = <<>>
    /\ response' = Raises("")
    /\ taxonomy' = JNull
    /\ enrich_arg' = JNull
    /\ returned' = JNull
    /\ base_calls' = 0
    /\ enrich_calls' = 0
    /\ pc' = "collect_github"
    /\ UNCHANGED <<env, files, clock>>

CollectGithub ==
    /\ pc = "collect_github"
    /\ \E o \in GithubOutcomes :
         IF o.kind = "raise"
         THEN /\ pc' = "raised"
              /\ run' = [run EXCEPT !.stages = Append(@, "collect_github"), !.error = o.err]
              /\ UNCHANGED github_data
         ELSE /\ pc' = "collect_web"
              /\ github_data' = o.data
              /\ Stage("collect_github")
    /\ UNCHANGED <<web_data, data_summary, response, taxonomy, enrich_arg, returned,
                   base_calls, enrich_calls, env, files, clock, past>>

CollectWeb ==
    /\ pc = "collect_web"
    /\ \E wd \in WebOutcomes : web_data' = wd
    /\ Stage("collect_web")
    /\ pc' = IF run.save_raw THEN "save_raw" ELSE "create_taxonomy"
    /\ UNCHANGED <<github_data, data_summary, response, taxonomy, enrich_arg, returned,
                   base_calls, enrich_calls, env, files, clock, past>>

SaveRawData ==
    /\ pc = "save_raw"
    /\ files' = WriteRawData(files, run.keyword, clock, github_data, web_data)
    /\ Stage("save_raw")
    /\ pc' = "create_taxonomy"
    /\ UNCHANGED <<env, clock, past>>
    /\ UNCHANGED avars

\* create_taxonomy up to its backend call
Summarize ==
    /\ pc = "create_taxonomy"
    /\ data_summary' = PrepareDataSummary(github_data, web_data)
    /\ Stage("summarize")
    /\ pc' = "base_inference"
    /\ UNCHANGED <<github_data, web_data, response, taxonomy, enrich_arg, returned,
                   base_calls, enrich_calls, env, files, clock, past>>

\* create_taxonomy from its backend call to its return
BaseInference ==
    /\ pc = "base_inference"
    /\ \E o \in RunBaseOutcomes :
         /\ response' = o
         /\ taxonomy' = CreateTaxonomyResult(o)
         /\ run' = [run EXCEPT !.stages = Append(@, "base_inference"),
                               !.base_response = o,
                               !.base_taxonomy = CreateTaxonomyResult(o)]
         /\ pc' = AfterBase(CreateTaxonomyResult(o), run.enrich)
    /\ base_calls' = base_calls + 1
    /\ UNCHANGED <<github_data, web_data, data_summary, enrich_arg, returned,
                   enrich_calls, env, files, clock, past>>

\* enrich_taxonomy(taxonomy)
Enrich ==
    /\ pc = "enrich"
    /\ enrich_arg' = taxonomy
    /\ IF ShortCircuits(taxonomy)
       THEN UNCHANGED <<taxonomy, response, enrich_calls, run>>
       ELSE /\ \E o \in RunEnrichOutcomes :
                 /\ response' = o
                 /\ taxonomy' = EnrichResult(taxonomy, o)
            /\ enrich_calls' = enrich_calls + 1
            /\ Stage("enrich_inference")
    /\ pc' = "save_taxonomy"
    /\ UNCHANGED <<github_data, web_data, data_summary, returned, base_calls,
                   env, files, clock, past>>

SaveTaxonomy ==
    /\ pc = "save_taxonomy"
    /\ files' = WriteTaxonomy(files, run.keyword, clock, taxonomy)
    /\ run' = [run EXCEPT !.stages = Append(@, "save_taxonomy"), !.saved_at = Timestamp(clock)]
    /\ past' = [past EXCEPT !.saved = [some |-> TRUE, keyword |-> run.keyword, taxonomy |-> taxonomy]]
    /\ pc' = "print_summary"
    /\ UNCHANGED <<env, clock>>
    /\ UNCHANGED avars

\* _print_summary, then `return taxonomy`
PrintSummary ==
    /\ pc = "print_summary"
    /\ IF PrintSummaryRaises(taxonomy)
       THEN /\ pc' = "raised"
            /\ run' = [run EXCEPT !.stages = Append(@, "print_summary"), !.error = "print"]
            /\ UNCHANGED returned
       ELSE /\ pc' = "done"
            /\ returned' = taxonomy
            /\ Stage("print_summary")
    /\ UNCHANGED <<github_data, web_data, data_summary, response, taxonomy, enrich_arg,
                   base_calls, enrich_calls, env, files, clock, past>>

\* a second passes between two runs
Tick ==
    /\ clock < MaxClock
    /\ pc \in {"done", "raised"}
    /\ clock' = clock + 1
    /\ UNCHANGED <<pc, env, files, run, past>>
    /\ UNCHANGED avars

MapNext ==
    \/ Construct
    \/ StartRun
    \/ CollectGithub
    \/ CollectWeb
    \/ SaveRawData
    \/ Summarize
    \/ BaseInference
    \/ Enrich
    \/ SaveTaxonomy
    \/ PrintSummary
    \/ Tick

MapSpec == MapInit /\ [][MapNext]_vars


(***************************************************************************)
(* Properties of create_taxonomy and enrich_taxonomy (under Spec)          *)
(***************************************************************************)
\* serialized taxonomy documents cut short: never a whole JSON document
TruncatedTexts ==
    UNION { { SubSeq(JsonDumps(d), 1, n) : n \in 0..(Len(JsonDumps(d)) - 1) } : d \in TaxonomyDocs }

\* the backend returned a text that is no JSON document
Unparseable(o) ==
    /\ o.kind = "text"
    /\ \/ ~JsonLoads(o.text).ok
       \/ o.text = NotJsonAtAll
       \/ o.text \in TruncatedTexts

\* C1: whenever the backend's text is not a JSON document (truncated text and the
\* literal "not json at all" included), create_taxonomy returns exactly
\* {error: "Failed to parse taxonomy", raw_response: <the text as received>}.
C1_ParseFailureKeepsRawText ==
    (pc = "created" /\ Unparseable(response)) =>
        returned = JObj(<<[k |-> "error", v |-> JStr("Failed to parse taxonomy")],
                          [k |-> "raw_response", v |-> JText(response.text)]>>)

C1_Witness ==
    /\ pc = "created"
    /\ response = Completion(NotJsonAtAll)
    /\ HasKey(returned, "raw_response")
    /\ DictGet(returned, "raw_response") = JText(NotJsonAtAll)

\* the text parsed, and the log line of the parsed value then raised
\* (the value is no dict, or its categories have no length)
FailsAfterParse(o) ==
    /\ o.kind = "text"
    /\ JsonLoads(o.text).ok
    /\ LET x == JsonLoads(o.text).val IN
       \/ x.t # "obj"
       \/ \E i \in 1..Len(x.v) : x.v[i].k = "categories" /\ x.v[i].v.t \in {"num", "bool", "null"}

\* C2: when the round-trip of create_taxonomy fails otherwise than by a parse
\* failure (the backend call raises, or handling the parsed value raises), a
\* value is returned: a document whose only key is error, holding the failure's
\* description, and without raw_response.
C2_TransportFailureResult ==
    /\ (pc = "created" /\ response.kind = "raise") =>
          /\ IsDict(returned)
          /\ Keys(returned) = {"error"}
          /\ DictGet(returned, "error") = JStr(response.err)
          /\ ~HasKey(returned, "raw_response")
    /\ (pc = "created" /\ FailsAfterParse(response)) =>
          /\ IsDict(returned)
          /\ Keys(returned) = {"error"}
          /\ DictGet(returned, "error").t = "str"

C2_Witness ==
    /\ pc = "created"
    /\ response = Raises("Connection error.")
    /\ returned = JObj(<<[k |-> "error", v |-> JStr("Connection error.")]>>)

\* the last enrichment was attempted on a non-error document
EnrichmentRan == pc = "enriched" /\ ~HasKey(enrich_arg, "error")

\* C3: when the enrichment call raises or its text is no JSON document,
\* enrich_taxonomy returns the document as it was passed in: no insights key
\* added, nothing else changed.
C3_FailedEnrichmentReturnsInput ==
    (EnrichmentRan /\ (response.kind = "raise" \/ Unparseable(response))) =>
        /\ returned = enrich_arg
        /\ taxonomy = enrich_arg
        /\ (HasKey(returned, "insights") => HasKey(enrich_arg, "insights"))

C3_Witness ==
    /\ EnrichmentRan
    /\ response.kind = "raise"
    /\ enrich_calls = 1
    /\ HasKey(enrich_arg, "categories")
    /\ Len(DictGet(enrich_arg, "categories").v) = 1
    /\ ~HasKey(returned, "insights")

\* the last enrichment parsed its response
EnrichmentSucceeded ==
    EnrichmentRan /\ response.kind = "text" /\ JsonLoads(response.text).ok

\* every key of the input still holds its value, except the keys in skip
KeepsValues(before, after, skip) ==
    \A key \in Keys(before) \ skip :
        HasKey(after, key) /\ DictGet(after, key) = DictGet(before, key)

\* C4 as stated: a successful enrichment of any non-error document (one that
\* already holds insights included) adds exactly one top-level key, insights,
\* and changes the value of no key that existed before.
C4_Original ==
    EnrichmentSucceeded =>
        /\ Len(returned.v) = Len(enrich_arg.v) + 1
        /\ Keys(returned) = Keys(enrich_arg) \cup {"insights"}
        /\ KeepsValues(enrich_arg, returned, {})

\* C4 amended: a successful enrichment stores the parsed insights under the key
\* insights and leaves every other key with its value and position; when the
\* input has no insights key exactly one key is added, and when it has one its
\* value is replaced and no key is added.
C4_InsightsAssigned ==
    EnrichmentSucceeded =>
        /\ HasKey(returned, "insights")
        /\ DictGet(returned, "insights") = JsonLoads(response.text).val
        /\ Keys(returned) = Keys(enrich_arg) \cup {"insights"}
        /\ KeepsValues(enrich_arg, returned, {"insights"})
        /\ \A i \in 1..Len(enrich_arg.v) : returned.v[i].k = enrich_arg.v[i].k
        /\ Len(returned.v) = Len(enrich_arg.v) + (IF HasKey(enrich_arg, "insights") THEN 0 ELSE 1)

C4_Witness ==
    /\ EnrichmentSucceeded
    /\ HasKey(enrich_arg, "insights")
    /\ DictGet(returned, "insights") # DictGet(enrich_arg, "insights")
    /\ Len(returned.v) = Len(enrich_arg.v)

\* C5: a document with an error key passed to enrich_taxonomy is returned
\* unchanged and no enrichment inference is made for it.
C5_ErrorResultShortCircuits ==
    (pc = "enriched" /\ HasKey(enrich_arg, "error")) =>
        /\ returned = enrich_arg
        /\ taxonomy = enrich_arg
        /\ enrich_calls = 0

C5_Witness ==
    /\ pc = "enriched"
    /\ HasKey(enrich_arg, "error")
    /\ HasKey(enrich_arg, "raw_response")
    /\ returned = enrich_arg

\* C6 as stated: the value create_taxonomy returns either has no error key, or
\* holds nothing but error and (only after a parse failure) raw_response.
C6_NeverAMix ==
    pc = "created" =>
        \/ ~HasKey(returned, "error")
        \/ /\ Keys(returned) \subseteq {"error", "raw_response"}
           /\ (HasKey(returned, "raw_response") => Unparseable(response))

\* C10: for a response that is the serialization of a document of the Taxonomy
\* shape, create_taxonomy returns that document (same categories, same fields,
\* nothing added or dropped), also when it has no categories.
C10_ValidDocumentRoundTrip ==
    \A d \in TaxonomyDocs :
        (pc = "created" /\ response = Completion(JsonDumps(d))) =>
            /\ returned = d
            /\ ~HasKey(returned, "error")
            /\ (HasKey(d, "categories") =>
                  Len(DictGet(returned, "categories").v) = Len(DictGet(d, "categories").v))

C10_Witness ==
    /\ pc = "created"
    /\ response.kind = "text"
    /\ HasKey(returned, "overview")
    /\ HasKey(returned, "categories")
    /\ DictGet(returned, "categories") = JArr(<<>>)
    /\ Keys(returned) = {"ecosystem_name", "overview", "categories", "key_trends", "emerging_areas"}

(***************************************************************************)
(* Properties of the Summary Builder (under SummarySpec)                   *)
(***************************************************************************)
OfKind(parts, kind) == SelectSeq(parts, LAMBDA p : p.kind = kind)

\* the positions of the parts of a kind, ascending
PositionsOf(parts, kind) ==
    SelectSeq([i \in 1..Len(parts) |-> i], LAMBDA i : parts[i].kind = kind)

\* C7: of n repositories the summary renders exactly the first min(n, 30), in
\* input order, numbered 1..min(n, 30), right after the header; no repository
\* after the 30th appears.
C7_FirstThirtyReposInOrder ==
    pc = "summarized" =>
        LET repos == OfKind(data_summary, "repo")
            k == IF Len(github_data) < 30 THEN Len(github_data) ELSE 30
        IN  /\ Len(repos) = k
            /\ \A i \in 1..k :
                  /\ data_summary[i + 1].kind = "repo"
                  /\ repos[i].num = i
                  /\ repos[i].full_name = github_data[i].full_name
                  /\ repos[i].stars = github_data[i].stars
            /\ \A i \in 1..Len(repos) : \A j \in 31..Len(github_data) :
                  repos[i].full_name # github_data[j].full_name

C7_Witness ==
    /\ pc = "summarized"
    /\ Len(github_data) > 30
    /\ Len(OfKind(data_summary, "repo")) = 30
    /\ \E i \in 1..29 : github_data[i].stars < github_data[i + 1].stars

\* C8: the summary holds one section per category, in the set's insertion
\* order, and the section of a category with m results holds exactly its first
\* min(m, 15) results in their order, whatever the other categories hold.
C8_FirstFifteenPerCategory ==
    pc = "summarized" =>
        LET heads == PositionsOf(data_summary, "web_header")
            endOf(j) == IF j < Len(heads) THEN heads[j + 1] - 1 ELSE Len(data_summary)
        IN  /\ Len(heads) = Len(web_data)
            /\ Len(OfKind(data_summary, "result")) + Len(heads)
                  = Len(data_summary) - Len(OfKind(data_summary, "repo")) - 1
            /\ \A j \in 1..Len(web_data) :
                  LET m == Len(web_data[j].results)
                      k == IF m < 15 THEN m ELSE 15
                  IN  /\ data_summary[heads[j]].category.n = web_data[j].category.n
                      /\ data_summary[heads[j]].category.s = <<"upper", web_data[j].category.s>>
                      /\ endOf(j) - heads[j] = k
                      /\ \A i \in 1..k :
                            /\ data_summary[heads[j] + i].kind = "result"
                            /\ data_summary[heads[j] + i].num = i
                            /\ data_summary[heads[j] + i].title = web_data[j].results[i].title
                            /\ data_summary[heads[j] + i].url = web_data[j].results[i].url

C8_Witness ==
    /\ pc = "summarized"
    /\ Len(web_data) = 3
    /\ \E j \in 1..3 : Len(web_data[j].results) > 15
    /\ \E j \in 1..3 : Len(web_data[j].results) \in 1..14
    /\ Len(OfKind(data_summary, "result")) > 15

\* categories of a WebResultSet of combine_searches
WebCategories == 3
\* the size of the largest summary whose every text field holds at most
\* ContentLimit characters: the header, RepoLimit repositories of TopicLimit
\* topics, WebCategories sections of ResultLimit results, and the joining newlines
SummarySizeCap ==
    LET field == ContentLimit
        NumberDigits == 10
        repo == NumberDigits + 2 + field + 2 + NumberDigits + 3 + 16 + field + 1
                + 11 + (TopicLimit * field + 2 * (TopicLimit - 1)) + 1 + 13 + field + 1
        head == 1 + 17 + field + 4 + 1
        result == NumberDigits + 2 + field + 1 + 8 + field + 1 + 12 + field + 3 + 1
    IN  28 + RepoLimit * (1 + repo) + WebCategories * ((1 + head) + ResultLimit * (1 + result))

\* C9 as stated: the size of the summary text stays under a fixed constant
\* whatever the input: it does not grow with the length of a record field such as
\* the repository description.
C9_BoundedSummarySize ==
    pc = "summarized" => SummarySize(data_summary) <= SummarySizeCap

\* C15: every rendered web result shows the first min(len(content), 200)
\* characters of its content followed by the marker "...", which is there also
\* when the content is shorter than 200 characters and nothing was cut.
C15_ContentPrefixThenEllipsis ==
    pc = "summarized" =>
        LET heads == PositionsOf(data_summary, "web_header") IN
        /\ \A j \in 1..Len(web_data) :
              \A i \in 1..Len(web_data[j].results) :
                 i <= 15 =>
                    LET p == data_summary[heads[j] + i]
                        c == web_data[j].results[i].content
                    IN  /\ p.kind = "result"
                        /\ p.content.s = c.s
                        /\ p.content.n = (IF c.n < 200 THEN c.n ELSE 200)
                        /\ p.ellipsis = "..."
        /\ \A i \in 1..Len(data_summary) :
              data_summary[i].kind = "result" =>
                 data_summary[i].content.n <= 200 /\ data_summary[i].ellipsis = "..."

C15_Witness ==
    /\ pc = "summarized"
    /\ \E i \in 1..Len(data_summary) :
          /\ data_summary[i].kind = "result"
          /\ data_summary[i].content.n < 200
          /\ data_summary[i].ellipsis = "..."
    /\ \E j \in 1..Len(web_data) : \E i \in 1..Len(web_data[j].results) :
          i <= 15 /\ web_data[j].results[i].content.n > 200

(***************************************************************************)
(* create_taxonomy on a JSON text that is no object (under Spec)           *)
(***************************************************************************)
\* JSON texts of an array, a string, a number, a literal
NonObjectTexts ==
    { <<LBracket, RBracket>>, <<LBracket, NumTok("1"), RBracket>>,
      <<LBracket, StrTok("error"), RBracket>>, <<StrTok("error")>>,
      <<StrTok("categories")>>, <<NumTok("1")>>, <<LitTok("null")>> }

\* C16: create_taxonomy always returns a mapping; for a text that is valid JSON
\* but no object the mapping holds only error, with a description (a str), no
\* raw_response, and it is not the parsed value.
C16_NonObjectBecomesErrorResult ==
    pc = "created" =>
        /\ returned.t = "obj"
        /\ (response.kind = "text" /\
              (response.text \in NonObjectTexts
                 \/ (JsonLoads(response.text).ok /\ JsonLoads(response.text).val.t # "obj"))) =>
              /\ returned # JsonLoads(response.text).val
              /\ Len(returned.v) = 1
              /\ returned.v[1].k = "error"
              /\ returned.v[1].v.t = "str"
              /\ returned.v[1].v.v \in
                    { "'list' object has no attribute 'get'", "'str' object has no attribute 'get'",
                      "'int' object has no attribute 'get'", "'bool' object has no attribute 'get'",
                      "'NoneType' object has no attribute 'get'" }

C16_Witness ==
    /\ pc = "created"
    /\ response = Completion(<<LBracket, NumTok("1"), RBracket>>)
    /\ returned = JObj(<<[k |-> "error", v |-> JStr("'list' object has no attribute 'get'")]>>)

(***************************************************************************)
(* Claims about EcosystemMapper runs                                       *)
(***************************************************************************)
MissingCredentials == { c \in Credentials : Missing(env, c) }

\* the component built first among those whose credential is missing
FirstRefusing ==
    IF "GITHUB_PAT" \in MissingCredentials THEN "GITHUB_PAT"
    ELSE IF "TAVILY_API_KEY" \in MissingCredentials THEN "TAVILY_API_KEY"
    ELSE "OPENROUTER_API_KEY"

StageRank(stage) ==
    CASE stage = "collect_github" -> 1
      [] stage = "collect_web" -> 2
      [] stage = "save_raw" -> 3
      [] stage = "summarize" -> 4
      [] stage = "base_inference" -> 5
      [] stage = "enrich_inference" -> 6
      [] stage = "save_taxonomy" -> 7
      [] OTHER -> 8

Ran(stage) == \E i \in 1..Len(run.stages) : run.stages[i] = stage

Times(stage) == Cardinality({ i \in 1..Len(run.stages) : run.stages[i] = stage })

\* C12: in a run each stage happens at most once and after the stages before
\* it (collection, summarization, base inference, enrichment inference), and
\* the backend is called at most once by create_taxonomy and at most once by
\* enrich_taxonomy, whatever the calls answered.
C12_StagesInOrderNoRetry ==
    /\ \A i \in 1..Len(run.stages), j \in 1..Len(run.stages) :
          i < j => StageRank(run.stages[i]) < StageRank(run.stages[j])
    /\ Ran("collect_web") => Ran("collect_github")
    /\ Ran("summarize") => Ran("collect_web")
    /\ Ran("base_inference") => Ran("summarize")
    /\ Ran("enrich_inference") => Ran("base_inference")
    /\ base_calls = Times("base_inference") /\ base_calls <= 1
    /\ enrich_calls = Times("enrich_inference") /\ enrich_calls <= 1

C12_Witness ==
    /\ pc = "done"
    /\ run.enrich
    /\ Unparseable(run.base_response)
    /\ base_calls = 1
    /\ past.count = MaxRuns

\* create_taxonomy failed: its backend call raised, or its text was no JSON
\* document, or handling the parsed value raised
BaseFailed ==
    \/ run.base_response.kind = "raise"
    \/ Unparseable(run.base_response)
    \/ FailsAfterParse(run.base_response)

EnrichmentFailed ==
    enrich_calls = 1 /\ (response.kind = "raise" \/ Unparseable(response))

\* C11: in a run, once create_taxonomy has returned: if it failed, its
\* ErrorResult is the run's taxonomy, enrich_taxonomy's backend call is never
\* made and the run returns that ErrorResult; if it succeeded and the
\* enrichment call failed, the run's taxonomy is the one create_taxonomy
\* returned, it has no error key, and the run returns it.
C11_BaseFailurePropagatesEnrichmentFailureDoesNot ==
    Ran("base_inference") =>
        /\ BaseFailed =>
              /\ run.base_response.kind = "raise" =>
                    run.base_taxonomy = ErrorResult(run.base_response.err)
              /\ Unparseable(run.base_response) =>
                    run.base_taxonomy = ParseErrorResult(run.base_response.text)
              /\ HasKey(run.base_taxonomy, "error")
              /\ taxonomy = run.base_taxonomy
              /\ enrich_calls = 0 /\ ~Ran("enrich_inference")
              /\ pc = "done" => returned = run.base_taxonomy
        /\ (~BaseFailed /\ EnrichmentFailed) =>
              /\ taxonomy = run.base_taxonomy
              /\ ~HasKey(taxonomy, "error")
              /\ pc = "done" => returned = run.base_taxonomy

C11_Witness ==
    /\ pc = "done"
    /\ ~BaseFailed
    /\ EnrichmentFailed
    /\ returned = FullTaxonomy

\* C14: a run that returns has written the value it returns, as json.dump
\* writes it and json.load reads it back, to the taxonomy document of its
\* timestamp and to the latest document of its keyword; and at any time the
\* latest document of the keyword that saved last holds the taxonomy of that
\* save, so after runs for one keyword it holds the result of the most recent.
C14_ReturnedValuePersisted ==
    /\ pc = "done" =>
          /\ Exists(files, TaxonomyFile(run.keyword, run.saved_at))
          /\ files[TaxonomyFile(run.keyword, run.saved_at)] = JsonDumps(returned)
          /\ Exists(files, LatestFile(run.keyword))
          /\ files[LatestFile(run.keyword)] = JsonDumps(returned)
          /\ JsonLoads(files[LatestFile(run.keyword)]) = [ok |-> TRUE, val |-> returned]
          /\ past.saved = [some |-> TRUE, keyword |-> run.keyword, taxonomy |-> returned]
    /\ past.saved.some =>
          /\ Exists(files, LatestFile(past.saved.keyword))
          /\ files[LatestFile(past.saved.keyword)] = JsonDumps(past.saved.taxonomy)

\* the second run for a keyword returns a result other than the first run's
C14_Witness ==
    /\ pc = "done"
    /\ past.count = 2
    /\ Cardinality(past.keywords) = 1
    /\ \E stamp \in 0..MaxClock :
          /\ stamp # run.saved_at
          /\ Exists(files, TaxonomyFile(run.keyword, stamp))
          /\ files[TaxonomyFile(run.keyword, stamp)] # JsonDumps(returned)
    /\ files[LatestFile(run.keyword)] = JsonDumps(returned)
    /\ HasKey(returned, "insights")

====
